---- MODULE Spec2Model ----
(***************************************************************************)
(* Person registry (src/main.rs): create_pessoa reserves the nickname with *)
(* SADD on the Redis set "apelidos", writes the serialized person to Redis *)
(* under its id, then inserts the row into the table pessoas;              *)
(* get_pessoa_by_id reads Redis first and falls back to the table.         *)
(*                                                                         *)
(* Every .await of a handler is a scheduling point, so each handler is a   *)
(* sequence of steps, one per backend call.  A backend call either         *)
(* completes or fails (Err) without having taken effect.  An .unwrap() on  *)
(* an Err panics: the request is aborted and no response is written.       *)
(***************************************************************************)
EXTENDS Integers, Sequences, FiniteSets, TLC

VARIABLES req, apelidos, cache, pessoas, uuids, faults

vars == <<req, apelidos, cache, pessoas, uuids, faults>>

(* number of requests of one run; request r is the r-th to arrive *)
NReq == 2
(* number of backend calls that may fail in one run *)
MaxFaults == 1

Reqs == 1..NReq
Uuids == 1..NReq

(* ---------------- strings: sequences of characters ---------------- *)

Repeat(c, n) == [i \in 1..n |-> c]

(* str::len(): the length in bytes of the UTF-8 encoding; "e_acute" stands
   for a character of two bytes *)
Utf8Len(c) == IF c = "e_acute" THEN 2 ELSE 1

RECURSIVE ByteLen(_)
ByteLen(s) == IF s = <<>> THEN 0 ELSE Utf8Len(Head(s)) + ByteLen(Tail(s))

(* validator's length(): the number of characters *)
CharLen(s) == Len(s)

LowerChar(c) ==
    CASE c = "A" -> "a"
      [] c = "B" -> "b"
      [] c = "J" -> "j"
      [] OTHER -> c

to_lowercase(s) == [i \in 1..Len(s) |-> LowerChar(s[i])]

RECURSIVE join(_, _)
join(items, sep) ==
    IF items = <<>> THEN <<>>
    ELSE IF Len(items) = 1 THEN items[1]
    ELSE items[1] \o sep \o join(Tail(items), sep)

(* ---------------- Option<T>: <<>> is None, <<v>> is Some(v) ---------------- *)

None == <<>>
Some(v) == <<v>>
IsSome(o) == Len(o) = 1
unwrap(o) == o[1]

(* ---------------- struct Pessoa and its validation ---------------- *)

ApelidoMax == 32
NomeMax == 100
StackItemMax == 32

Pessoa(id, apelido, nome, nascimento, stack) ==
    [id |-> id, apelido |-> apelido, nome |-> nome,
     nascimento |-> nascimento, stack |-> stack]

validate_stack(stack) == \A i \in 1..Len(stack) : ByteLen(stack[i]) <= StackItemMax

validate(p) ==
    /\ IsSome(p.apelido)
    /\ CharLen(unwrap(p.apelido)) >= 1
    /\ CharLen(unwrap(p.apelido)) <= ApelidoMax
    /\ IsSome(p.nome)
    /\ CharLen(unwrap(p.nome)) >= 1
    /\ CharLen(unwrap(p.nome)) <= NomeMax
    /\ IsSome(p.nascimento)
    /\ (IsSome(p.stack) => validate_stack(unwrap(p.stack)))

(* serde_json::to_string(&pessoa): the fields in declaration order, None as null *)
to_string(p) ==
    << <<"id", p.id>>, <<"apelido", p.apelido>>, <<"nome", p.nome>>,
       <<"nascimento", p.nascimento>>, <<"stack", p.stack>> >>

(* the value of a key of a serialized person *)
JsonField(json, key) ==
    LET i == CHOOSE i \in 1..Len(json) : json[i][1] = key IN json[i][2]

(* ---------------- request payloads ---------------- *)

D1 == <<"1990-01-01">>
D2 == <<"2000-02-29">>

Payloads ==
    { Pessoa(None, Some(<<"a">>), Some(<<"J", "o">>), Some(D1), Some(<< <<"g", "o">>, <<"B">> >>)),
      Pessoa(Some(2), Some(<<"a">>), Some(<<"A", "b">>), Some(D2), None),
      Pessoa(Some(1), Some(<<"A">>), Some(<<"J", "o">>), Some(D1), Some(<<>>)),
      Pessoa(None, Some(Repeat("b", ApelidoMax)), Some(Repeat("e_acute", NomeMax)), Some(D2),
             Some(<< Repeat("a", StackItemMax) >>)),
      Pessoa(None, None, Some(<<"J">>), Some(D1), None),
      Pessoa(None, Some(Repeat("a", ApelidoMax + 1)), Some(<<"J">>), Some(D1), None),
      Pessoa(None, Some(<<"b">>), Some(<<"J">>), Some(D1), Some(<< Repeat("e_acute", 17) >>)) }

(* ---------------- backends ---------------- *)

(* new_v4 as a generator that repeats an identifier *)
new_v4_repeats(n) == 1

(* Uuid::new_v4(): an identifier no earlier call returned; n counts the calls *)
new_v4(n) == n + 1

(* set_id keeping an identifier the payload carries *)
set_id_keep_client(p, id) == IF IsSome(p.id) THEN p ELSE [p EXCEPT !.id = Some(id)]

(* pessoa.id = Some(id) *)
set_id(p, id) == [p EXCEPT !.id = Some(id)]

(* sadd reporting an addition whether or not the member was there *)
sadd_always_added(set, member) == 1

(* Redis SADD key member: the number of members added *)
sadd(set, member) == IF member \in set THEN 0 ELSE 1

(* sadd_members losing the addition *)
sadd_members_lost(set, member) == set

(* the set after SADD key member *)
sadd_members(set, member) == set \cup {member}

(* Redis SET key value *)
redis_set(c, key, value) ==
    [k \in DOMAIN c \cup {key} |-> IF k = key THEN value ELSE c[k]]

(* Redis GET key: Some(value) or None *)
redis_get(c, key) == IF key \in DOMAIN c THEN Some(c[key]) ELSE None

(* stack_str: the stack joined with spaces, "" without a stack *)
stack_str(p) == IF IsSome(p.stack) THEN join(unwrap(p.stack), <<" ">>) ELSE <<>>

(* search_text: "{nome} {apelido} {stack_str}" in lower case *)
search_text(p) ==
    to_lowercase(unwrap(p.nome) \o <<" ">> \o unwrap(p.apelido) \o <<" ">> \o stack_str(p))

(* Row binding the nickname in lower case *)
Row_lower_apelido(id, p) ==
    [id |-> id, apelido |-> Some(to_lowercase(unwrap(p.apelido))), nome |-> p.nome,
     nascimento |-> p.nascimento, stack |-> p.stack, search_vector |-> search_text(p)]

(* the row INSERT INTO pessoas binds *)
Row(id, p) ==
    [id |-> id, apelido |-> p.apelido, nome |-> p.nome, nascimento |-> p.nascimento,
     stack |-> p.stack, search_vector |-> search_text(p)]

(* insert that stores nothing *)
insert_dropped(table, row) == table

(* INSERT INTO pessoas: the table with the row added *)
insert(table, row) == Append(table, row)

(* SELECT id, apelido, nome, nascimento, stack FROM pessoas WHERE id = $1 *)
select_by_id(table, id) == { i \in 1..Len(table) : table[i].id = id }

(* sqlx::FromRow: the Pessoa of a selected row *)
from_row(row) == Pessoa(Some(row.id), row.apelido, row.nome, row.nascimento, row.stack)

(* ---------------- search and count ---------------- *)

(* LIMIT 50 *)
SearchLimit == 50

(* the query strings of GET /pessoas?t= *)
Queries == { <<"J", "o">>, <<"g", ".">>, <<"z">>, <<"(">> }

(* a pattern PostgreSQL accepts as a regular expression: of the characters of
   Queries, a lone "(" is a syntax error *)
regex_valid(pattern) == \A k \in 1..Len(pattern) : pattern[k] # "("

(* the pattern matches the text at offset i: "." matches any character, every
   other character of Queries matches itself *)
regex_match_at(text, pattern, i) ==
    \A k \in 1..Len(pattern) : pattern[k] = "." \/ text[i + k] = pattern[k]

(* search_vector ~ $1: the regular expression matches somewhere in the text *)
regex_match(text, pattern) ==
    \E i \in 0..(Len(text) - Len(pattern)) : regex_match_at(text, pattern, i)

(* the first n elements of a sequence *)
limit(rows, n) == SubSeq(rows, 1, IF Len(rows) < n THEN Len(rows) ELSE n)

(* SELECT id, apelido, nome, nascimento, stack FROM pessoas
   WHERE search_vector ~ $1 LIMIT 50 *)
select_search(table, pattern) ==
    limit(SelectSeq(table, LAMBDA row : regex_match(row.search_vector, pattern)),
          SearchLimit)

(* json(pessoas): the array of the serialized persons of the selected rows *)
to_json_array(rows) == [i \in 1..Len(rows) |-> to_string(from_row(rows[i]))]

(* SELECT COUNT(id) FROM pessoas *)
count_id(table) == Len(table)

Digit(d) ==
    CASE d = 0 -> "0" [] d = 1 -> "1" [] d = 2 -> "2" [] d = 3 -> "3" [] d = 4 -> "4"
      [] d = 5 -> "5" [] d = 6 -> "6" [] d = 7 -> "7" [] d = 8 -> "8" [] d = 9 -> "9"

(* i64::to_string() of a count: its decimal digits *)
RECURSIVE i64_to_string(_)
i64_to_string(n) ==
    IF n < 10 THEN <<Digit(n)>> ELSE i64_to_string(n \div 10) \o <<Digit(n % 10)>>

(* ---------------- requests ---------------- *)

NoPessoa == Pessoa(None, None, None, None, None)

Idle ==
    [kind |-> "idle", pc |-> "idle", input |-> NoPessoa, pessoa |-> NoPessoa, id |-> 0,
     serialized_person |-> <<>>, resp |-> "none", location |-> 0, body |-> <<>>,
     fault |-> "none", after |-> FALSE, t |-> <<>>]

Done(r) == req[r].pc = "done"

(* a response ends the request *)
Respond(r, status, location, body) ==
    req' = [req EXCEPT ![r].pc = "done", ![r].resp = status,
                       ![r].location = location, ![r].body = body]

(* unwrap() of an Err: the handler panics and the request is aborted *)
Panic(r, call) ==
    /\ faults < MaxFaults
    /\ faults' = faults + 1
    /\ req' = [req EXCEPT ![r].pc = "done", ![r].resp = "panic", ![r].fault = call]

(* requests arrive in the order of their numbers *)
Arrives(r) ==
    /\ req[r].kind = "idle"
    /\ \A q \in Reqs : q < r => req[q].kind # "idle"

Init ==
    /\ req = [r \in Reqs |-> Idle]
    /\ apelidos = {}
    /\ cache = <<>>
    /\ pessoas = <<>>
    /\ uuids = 0
    /\ faults = 0

(* ---------------- POST /pessoas ---------------- *)

(* validation, the new identifier and the serialization, up to the first await *)
CreateStart(r, p) ==
    /\ Arrives(r)
    /\ IF ~validate(p)
       THEN /\ req' = [req EXCEPT ![r].kind = "create", ![r].input = p, ![r].pessoa = p,
                                  ![r].pc = "done", ![r].resp = "UnprocessableEntity",
                                  ![r].body = <<"errors">>]
            /\ UNCHANGED uuids
       ELSE LET id == new_v4(uuids)
                pessoa == set_id(p, id)
            IN /\ req' = [req EXCEPT ![r].kind = "create", ![r].input = p,
                                     ![r].pessoa = pessoa, ![r].id = id,
                                     ![r].serialized_person = to_string(pessoa),
                                     ![r].pc = "redis_pool"]
               /\ uuids' = uuids + 1
    /\ UNCHANGED <<apelidos, cache, pessoas, faults>>

(* redis_pool.get().await.unwrap() *)
CreatePool(r) ==
    /\ req[r].kind = "create" /\ req[r].pc = "redis_pool"
    /\ \/ req' = [req EXCEPT ![r].pc = "sadd"] /\ UNCHANGED faults
       \/ Panic(r, "redis_pool")
    /\ UNCHANGED <<apelidos, cache, pessoas, uuids>>

(* CreateSadd without the test of exists: the create goes on after a denial *)
CreateSadd_unchecked(r) ==
    /\ req[r].kind = "create" /\ req[r].pc = "sadd"
    /\ \/ /\ apelidos' = sadd_members(apelidos, unwrap(req[r].pessoa.apelido))
          /\ req' = [req EXCEPT ![r].pc = "set"]
          /\ UNCHANGED faults
       \/ Panic(r, "sadd") /\ UNCHANGED apelidos
    /\ UNCHANGED <<cache, pessoas, uuids>>

(* CreateSadd with the cache written before the test of exists *)
CreateSadd_set_first(r) ==
    /\ req[r].kind = "create" /\ req[r].pc = "sadd"
    /\ \/ LET member == unwrap(req[r].pessoa.apelido)
              exists == sadd(apelidos, member)
          IN /\ apelidos' = sadd_members(apelidos, member)
             /\ cache' = redis_set(cache, req[r].id, req[r].serialized_person)
             /\ IF exists = 0
                THEN Respond(r, "UnprocessableEntity", 0, <<>>)
                ELSE req' = [req EXCEPT ![r].pc = "set"]
             /\ UNCHANGED faults
       \/ Panic(r, "sadd") /\ UNCHANGED <<apelidos, cache>>
    /\ UNCHANGED <<pessoas, uuids>>

(* CreateSadd with unwrap_or(1): a failed SADD call counts as a reservation *)
CreateSadd_error_as_granted(r) ==
    /\ req[r].kind = "create" /\ req[r].pc = "sadd"
    /\ \/ LET member == unwrap(req[r].pessoa.apelido)
              exists == sadd(apelidos, member)
          IN /\ apelidos' = sadd_members(apelidos, member)
             /\ IF exists = 0
                THEN Respond(r, "UnprocessableEntity", 0, <<>>)
                ELSE req' = [req EXCEPT ![r].pc = "set"]
             /\ UNCHANGED faults
       \/ /\ faults < MaxFaults
          /\ faults' = faults + 1
          /\ req' = [req EXCEPT ![r].pc = "set", ![r].fault = "sadd"]
          /\ UNCHANGED apelidos
    /\ UNCHANGED <<cache, pessoas, uuids>>

(* redis.sadd("apelidos", &pessoa.apelido).await.unwrap(); exists == 0 => 422 *)
CreateSadd(r) ==
    /\ req[r].kind = "create" /\ req[r].pc = "sadd"
    /\ \/ LET member == unwrap(req[r].pessoa.apelido)
              exists == sadd(apelidos, member)
          IN /\ apelidos' = sadd_members(apelidos, member)
             /\ IF exists = 0
                THEN Respond(r, "UnprocessableEntity", 0, <<>>)
                ELSE req' = [req EXCEPT ![r].pc = "set"]
             /\ UNCHANGED faults
       \/ Panic(r, "sadd") /\ UNCHANGED apelidos
    /\ UNCHANGED <<cache, pessoas, uuids>>

(* CreateSet without the cache write *)
CreateSet_skipped(r) ==
    /\ req[r].kind = "create" /\ req[r].pc = "set"
    /\ \/ /\ req' = [req EXCEPT ![r].pc = "insert"]
          /\ UNCHANGED <<faults, cache>>
       \/ Panic(r, "set") /\ UNCHANGED cache
    /\ UNCHANGED <<apelidos, pessoas, uuids>>

(* redis.set(id.to_string(), &serialized_person).await.unwrap() *)
CreateSet(r) ==
    /\ req[r].kind = "create" /\ req[r].pc = "set"
    /\ \/ /\ cache' = redis_set(cache, req[r].id, req[r].serialized_person)
          /\ req' = [req EXCEPT ![r].pc = "insert"]
          /\ UNCHANGED faults
       \/ Panic(r, "set") /\ UNCHANGED cache
    /\ UNCHANGED <<apelidos, pessoas, uuids>>

(* CreateInsert releasing the nickname (SREM) when the insert fails *)
CreateInsert_release(r) ==
    /\ req[r].kind = "create" /\ req[r].pc = "insert"
    /\ \/ /\ pessoas' = insert(pessoas, Row(req[r].id, req[r].pessoa))
          /\ Respond(r, "Created", req[r].id, <<>>)
          /\ UNCHANGED <<faults, apelidos>>
       \/ /\ faults < MaxFaults
          /\ faults' = faults + 1
          /\ req' = [req EXCEPT ![r].pc = "done", ![r].resp = "InternalServerError",
                                ![r].fault = "insert"]
          /\ apelidos' = apelidos \ {unwrap(req[r].pessoa.apelido)}
          /\ UNCHANGED pessoas
    /\ UNCHANGED <<cache, uuids>>

(* the search text, INSERT INTO pessoas and the response *)
CreateInsert(r) ==
    /\ req[r].kind = "create" /\ req[r].pc = "insert"
    /\ \/ /\ pessoas' = insert(pessoas, Row(req[r].id, req[r].pessoa))
          /\ Respond(r, "Created", req[r].id, <<>>)
          /\ UNCHANGED faults
       \/ /\ faults < MaxFaults
          /\ faults' = faults + 1
          /\ req' = [req EXCEPT ![r].pc = "done", ![r].resp = "InternalServerError",
                                ![r].fault = "insert"]
          /\ UNCHANGED pessoas
    /\ UNCHANGED <<apelidos, cache, uuids>>

(* ---------------- GET /pessoas/{id} ---------------- *)

(* some create has answered Created with this identifier *)
WasCreated(id) ==
    \E q \in Reqs : req[q].kind = "create" /\ req[q].resp = "Created" /\ req[q].location = id

GetStart(r, id) ==
    /\ Arrives(r)
    /\ req' = [req EXCEPT ![r].kind = "get", ![r].id = id, ![r].pc = "redis_pool",
                          ![r].after = WasCreated(id)]
    /\ UNCHANGED <<apelidos, cache, pessoas, uuids, faults>>

(* redis_pool.get().await.unwrap() *)
GetPool(r) ==
    /\ req[r].kind = "get" /\ req[r].pc = "redis_pool"
    /\ \/ req' = [req EXCEPT ![r].pc = "get"] /\ UNCHANGED faults
       \/ Panic(r, "redis_pool")
    /\ UNCHANGED <<apelidos, cache, pessoas, uuids>>

(* redis.get(id.to_string()).await.unwrap_or(None); Some(json_data) => 200 *)
GetRedis(r) ==
    /\ req[r].kind = "get" /\ req[r].pc = "get"
    /\ \/ LET pessoa_json == redis_get(cache, req[r].id)
          IN /\ IF IsSome(pessoa_json)
                THEN Respond(r, "Ok", 0, unwrap(pessoa_json))
                ELSE req' = [req EXCEPT ![r].pc = "select"]
             /\ UNCHANGED faults
       \/ /\ faults < MaxFaults
          /\ faults' = faults + 1
          /\ req' = [req EXCEPT ![r].pc = "select", ![r].fault = "get"]
    /\ UNCHANGED <<apelidos, cache, pessoas, uuids>>

(* SELECT ... WHERE id = $1: Err => 500, Some(pessoa) => 200, None => 404 *)
GetSelect(r) ==
    /\ req[r].kind = "get" /\ req[r].pc = "select"
    /\ \/ LET found == select_by_id(pessoas, req[r].id)
          IN /\ IF found # {}
                THEN Respond(r, "Ok", 0,
                             to_string(from_row(pessoas[CHOOSE i \in found : TRUE])))
                ELSE Respond(r, "NotFound", 0, <<>>)
             /\ UNCHANGED faults
       \/ /\ faults < MaxFaults
          /\ faults' = faults + 1
          /\ req' = [req EXCEPT ![r].pc = "done", ![r].resp = "InternalServerError",
                                ![r].fault = "select"]
    /\ UNCHANGED <<apelidos, cache, pessoas, uuids>>

(* ---------------- GET /pessoas?t= ---------------- *)

SearchStart(r, t) ==
    /\ Arrives(r)
    /\ req' = [req EXCEPT ![r].kind = "search", ![r].t = t, ![r].pc = "query"]
    /\ UNCHANGED <<apelidos, cache, pessoas, uuids, faults>>

(* the query on the lowercased t: Ok(pessoas) => 200 with the array, Err => 500 *)
SearchQuery(r) ==
    /\ req[r].kind = "search" /\ req[r].pc = "query"
    /\ \/ LET pattern == to_lowercase(req[r].t)
          IN /\ IF regex_valid(pattern)
                THEN Respond(r, "Ok", 0, to_json_array(select_search(pessoas, pattern)))
                ELSE Respond(r, "InternalServerError", 0, <<>>)
             /\ UNCHANGED faults
       \/ /\ faults < MaxFaults
          /\ faults' = faults + 1
          /\ req' = [req EXCEPT ![r].pc = "done", ![r].resp = "InternalServerError",
                                ![r].fault = "query"]
    /\ UNCHANGED <<apelidos, cache, pessoas, uuids>>

(* ---------------- GET /contagem-pessoas ---------------- *)

CountStart(r) ==
    /\ Arrives(r)
    /\ req' = [req EXCEPT ![r].kind = "count", ![r].pc = "query"]
    /\ UNCHANGED <<apelidos, cache, pessoas, uuids, faults>>

(* SELECT COUNT(id): Ok(count) => 200 with the number, Err => 500 *)
CountQuery(r) ==
    /\ req[r].kind = "count" /\ req[r].pc = "query"
    /\ \/ /\ Respond(r, "Ok", 0, i64_to_string(count_id(pessoas)))
          /\ UNCHANGED faults
       \/ /\ faults < MaxFaults
          /\ faults' = faults + 1
          /\ req' = [req EXCEPT ![r].pc = "done", ![r].resp = "InternalServerError",
                                ![r].fault = "query"]
    /\ UNCHANGED <<apelidos, cache, pessoas, uuids>>

Next ==
    \/ \E r \in Reqs, p \in Payloads : CreateStart(r, p)
    \/ \E r \in Reqs : CreatePool(r)
    \/ \E r \in Reqs : CreateSadd(r)
    \/ \E r \in Reqs : CreateSet(r)
    \/ \E r \in Reqs : CreateInsert(r)
    \/ \E r \in Reqs, id \in Uuids : GetStart(r, id)
    \/ \E r \in Reqs : GetPool(r)
    \/ \E r \in Reqs : GetRedis(r)
    \/ \E r \in Reqs : GetSelect(r)
    \/ \E r \in Reqs, t \in Queries : SearchStart(r, t)
    \/ \E r \in Reqs : SearchQuery(r)
    \/ \E r \in Reqs : CountStart(r)
    \/ \E r \in Reqs : CountQuery(r)

Spec == Init /\ [][Next]_vars

(* ---------------- vocabulary of the properties ---------------- *)

IsCreate(r) == req[r].kind = "create"
IsGet(r) == req[r].kind = "get"

(* a create whose payload passed validation *)
ValidCreate(r) == IsCreate(r) /\ validate(req[r].input)

Nick(r) == unwrap(req[r].input.apelido)

(* the creates carrying nickname n *)
CreatesOf(n) == { r \in Reqs : ValidCreate(r) /\ Nick(r) = n }

Nicks == { unwrap(p.apelido) : p \in { x \in Payloads : validate(x) } }

(* the duplicate-nickname response: 422 without a body *)
Duplicate(r) == req[r].resp = "UnprocessableEntity" /\ req[r].body = <<>>

(* the validation response: 422 with the validation errors *)
Invalid(r) == req[r].resp = "UnprocessableEntity" /\ req[r].body # <<>>

Created(r) == req[r].resp = "Created"

(* no backend call of the request failed *)
NoFault(r) == req[r].fault = "none"

RowsOfNick(n) == { i \in 1..Len(pessoas) : pessoas[i].apelido = Some(n) }

(* the person data of a response body equals the payload of create c *)
SameData(body, c) ==
    /\ JsonField(body, "apelido") = req[c].input.apelido
    /\ JsonField(body, "nome") = req[c].input.nome
    /\ JsonField(body, "nascimento") = req[c].input.nascimento
    /\ JsonField(body, "stack") = req[c].input.stack

(* ---------------- C1 ---------------- *)

(* C1: of the creates with valid payloads that carry one nickname, never two
   answer Created; and once all of them have ended, none with a failed backend
   call, exactly one has answered Created and every other one has answered the
   duplicate-nickname response. *)
C1_ExactlyOneCreated ==
    \A n \in Nicks :
        LET S == CreatesOf(n)
            won == { r \in S : Created(r) }
        IN /\ Cardinality(won) <= 1
           /\ (S # {} /\ \A r \in S : Done(r) /\ NoFault(r))
                => /\ Cardinality(won) = 1
                   /\ \A r \in S \ won : Duplicate(r)

(* two creates of one nickname have both ended: one Created, one duplicate *)
C1_Witness ==
    \E r, q \in Reqs :
        /\ r # q /\ ValidCreate(r) /\ ValidCreate(q) /\ Nick(r) = Nick(q)
        /\ Created(r) /\ Duplicate(q)

(* ---------------- C2 ---------------- *)

(* C2: no two rows of the table pessoas hold the same nickname (compared
   exactly, case-sensitively); the table of the model has no uniqueness
   constraint, so the SADD reservation alone keeps this. *)
C2_NicknameUniqueInStore ==
    \A i, j \in 1..Len(pessoas) : i # j => pessoas[i].apelido # pessoas[j].apelido

(* two creates of one nickname both passed the reservation call and the table
   holds one row of that nickname *)
C2_Witness ==
    \E r, q \in Reqs :
        /\ r # q /\ ValidCreate(r) /\ ValidCreate(q) /\ Nick(r) = Nick(q)
        /\ Done(r) /\ Done(q) /\ NoFault(r) /\ NoFault(q)
        /\ Cardinality(RowsOfNick(Nick(r))) = 1

(* ---------------- C3 ---------------- *)

(* C3: every identifier that has an entry in the cache has a row in the
   table pessoas (the cache entry is written only after the insert). *)
C3_CachedOnlyAfterPersisted ==
    \A id \in DOMAIN cache : select_by_id(pessoas, id) # {}

(* ---------------- C4 ---------------- *)

(* C4: a get-by-id that starts after a create answered Created with its
   identifier, and whose table query does not fail, answers Ok with the data
   of that create; it is never aborted and never answers an error, whether the
   cache hits, misses or cannot be reached. *)
C4_GetSurvivesCacheOutage ==
    \A g \in Reqs :
        (IsGet(g) /\ req[g].after /\ Done(g) /\ req[g].fault # "select")
            => /\ req[g].resp = "Ok"
               /\ \A c \in Reqs :
                      (IsCreate(c) /\ Created(c) /\ req[c].location = req[g].id)
                          => SameData(req[g].body, c)

(* ---------------- C5 ---------------- *)

(* C5: a create whose cache write (SET) failed still answers Created and its
   row is in the table pessoas. *)
C5_CachePutFailureNotFatal ==
    \A r \in Reqs :
        (IsCreate(r) /\ Done(r) /\ req[r].fault = "set")
            => Created(r) /\ select_by_id(pessoas, req[r].id) # {}

(* ---------------- C6 ---------------- *)

(* the state of an orphaned reservation *)
Orphaned(r) ==
    /\ req[r].resp = "InternalServerError"
    /\ Nick(r) \in apelidos
    /\ RowsOfNick(Nick(r)) = {}
    /\ \A q \in CreatesOf(Nick(r)) \ {r} :
           /\ ~Created(q)
           /\ req[q].pc \notin {"set", "insert"}
           /\ req[q].fault # "insert"
           /\ (Done(q) /\ NoFault(q)) => Duplicate(q)

(* C6: a create whose insert failed after its reservation answers a server
   error, no row of the table holds its nickname, the nickname is in the set
   apelidos, every other create of that nickname whose calls complete answers
   the duplicate-nickname response and none answers Created; and a nickname in
   the set apelidos stays in it in every step. *)
C6_OrphanedReservation ==
    /\ [](\A r \in Reqs : (IsCreate(r) /\ req[r].fault = "insert") => Orphaned(r))
    /\ [][apelidos \subseteq apelidos']_vars

(* an insert failed and a create of the same nickname that arrived after it
   has been denied *)
C6_Witness ==
    \E r, q \in Reqs :
        /\ r < q /\ IsCreate(r) /\ req[r].fault = "insert"
        /\ ValidCreate(q) /\ Nick(q) = Nick(r) /\ Duplicate(q)

(* ---------------- C7 ---------------- *)

(* C7: a get-by-id that starts after a create answered Created with its
   identifier, and none of whose calls fails, answers Ok; and every Ok answer
   for the identifier of a Created answer carries the nickname, name, birth
   date and stack of that payload and, as identifier, the one the server
   generated (the one in the Location header), whatever identifier the payload
   carried. *)
C7_RoundTrip ==
    \A g \in Reqs :
        IsGet(g) =>
            /\ (req[g].after /\ Done(g) /\ NoFault(g)) => req[g].resp = "Ok"
            /\ \A c \in Reqs :
                   (IsCreate(c) /\ Created(c) /\ req[c].location = req[g].id
                        /\ req[g].resp = "Ok")
                       => /\ SameData(req[g].body, c)
                          /\ JsonField(req[g].body, "id") = Some(req[c].location)
                          /\ req[c].location = req[c].id

(* a person created from a payload that carried an identifier of its own has
   been fetched after the Created answer *)
C7_Witness ==
    \E g, c \in Reqs :
        /\ IsGet(g) /\ req[g].after /\ req[g].resp = "Ok"
        /\ IsCreate(c) /\ Created(c) /\ req[c].location = req[g].id
        /\ IsSome(req[c].input.id) /\ req[c].input.id # Some(req[c].location)

(* ---------------- C8 ---------------- *)

(* C8: a create with a valid payload whose nickname no other create carries,
   and none of whose backend calls fails, answers Created once it has ended;
   and the identifiers of any two Created answers differ. *)
C8_DistinctNicknamesAllCreated ==
    /\ \A r \in Reqs :
           (ValidCreate(r) /\ Done(r) /\ NoFault(r) /\ CreatesOf(Nick(r)) = {r})
               => Created(r)
    /\ \A r, q \in Reqs :
           (r # q /\ IsCreate(r) /\ IsCreate(q) /\ Created(r) /\ Created(q))
               => req[r].location # req[q].location

(* two creates of different nicknames have both answered Created *)
C8_Witness ==
    \E r, q \in Reqs :
        /\ r # q /\ ValidCreate(r) /\ ValidCreate(q) /\ Nick(r) # Nick(q)
        /\ Created(r) /\ Created(q)

(* ---------------- C9 ---------------- *)

(* C9: every step of a create that is rejected with 422 (the validation, the
   connection to the reservation backend, the denied reservation) leaves the
   set apelidos, the cache and the table pessoas as they were. *)
C9_RejectedCreateNoSideEffects ==
    [][\A r \in Reqs :
           (/\ req'[r] # req[r]
            /\ req'[r].kind = "create"
            /\ \/ req'[r].pc \in {"redis_pool", "sadd"}
               \/ req'[r].resp = "UnprocessableEntity")
               => UNCHANGED <<apelidos, cache, pessoas>>]_vars

(* a create has been denied its nickname while a record of it was stored *)
C9_Witness ==
    \E r \in Reqs :
        /\ ValidCreate(r) /\ Duplicate(r)
        /\ Nick(r) \in apelidos /\ Len(pessoas) = 1 /\ DOMAIN cache # {}

(* ---------------- C10 ---------------- *)

(* C10 as stated: a create whose connection to the reservation backend or
   whose SADD call failed answers a server error (500). *)
C10_AnswersServerError ==
    \A r \in Reqs :
        (IsCreate(r) /\ req[r].fault \in {"redis_pool", "sadd"})
            => req[r].resp = "InternalServerError"

(* C10, amended: a create whose connection to the reservation backend or whose
   SADD call failed is aborted by the panic of the handler, without a
   response: it answers neither Created nor the duplicate-nickname response,
   and neither the cache nor the table pessoas holds anything under its
   identifier. *)
C10_ReservationFailureIsFatal ==
    \A r \in Reqs :
        (IsCreate(r) /\ req[r].fault \in {"redis_pool", "sadd"})
            => /\ Done(r)
               /\ req[r].resp = "panic"
               /\ ~Created(r) /\ ~Duplicate(r)
               /\ req[r].id \notin DOMAIN cache
               /\ select_by_id(pessoas, req[r].id) = {}

(* the SADD call of a create failed *)
C10_Witness ==
    \E r \in Reqs : IsCreate(r) /\ req[r].fault = "sadd" /\ Done(r)

(* ---------------- C11 ---------------- *)

IsSearch(r) == req[r].kind = "search"
IsCount(r) == req[r].kind = "count"

(* the number of creates that have answered Created *)
CreatedCount == Cardinality({ r \in Reqs : IsCreate(r) /\ Created(r) })

(* C11: the count of the table starts at 0 and in every state equals the
   number of creates that have answered Created; a count request that answers
   Ok answers that number in decimal; and a step in which a create ends with
   422, 500 or a panic leaves the count as it was. *)
C11_CountMonotonic ==
    /\ [](count_id(pessoas) = CreatedCount)
    /\ [][\A r \in Reqs :
              (IsCount(r) /\ req[r].pc = "query" /\ req'[r].resp = "Ok")
                  => req'[r].body = i64_to_string(CreatedCount)]_vars
    /\ [][\A r \in Reqs :
              (req'[r] # req[r] /\ req'[r].kind = "create" /\ req'[r].pc = "done"
                   /\ req'[r].resp # "Created")
                  => count_id(pessoas') = count_id(pessoas)]_vars

(* a count has answered 1 after one create answered Created *)
C11_Witness ==
    \E c \in Reqs :
        IsCount(c) /\ req[c].resp = "Ok" /\ req[c].body = <<"1">> /\ CreatedCount = 1

(* ---------------- C12 ---------------- *)

(* the text contains sub as a substring *)
Contains(text, sub) ==
    \E i \in 0..(Len(text) - Len(sub)) : \A k \in 1..Len(sub) : text[i + k] = sub[k]

(* the rows whose search text contains the lowercased query *)
Matching(table, t) ==
    { i \in 1..Len(table) : Contains(table[i].search_vector, to_lowercase(t)) }

(* C12: a search that answers Ok returns at most 50 records, each the record
   of a row of the table pessoas whose search text contains the lowercased
   query as a substring; and when fewer than 50 rows match at the time of the
   query, the record of every matching row is returned. *)
C12_SearchIsSubstring ==
    [][\A s \in Reqs :
           (IsSearch(s) /\ req[s].pc = "query" /\ req'[s].resp = "Ok")
               => LET body == req'[s].body
                      m == Matching(pessoas, req[s].t)
                  IN /\ Len(body) <= SearchLimit
                     /\ \A k \in 1..Len(body) :
                            \E i \in m : body[k] = to_string(from_row(pessoas[i]))
                     /\ Cardinality(m) < SearchLimit
                            => \A i \in m : \E k \in 1..Len(body) :
                                   body[k] = to_string(from_row(pessoas[i]))]_vars

(* ---------------- C13 ---------------- *)

(* the reservation call of the create was granted *)
Granted(r) ==
    \/ req[r].pc \in {"set", "insert"}
    \/ req[r].resp \in {"Created", "InternalServerError"}
    \/ req[r].fault \in {"set", "insert"}

(* C13: the reservation is one step: a SADD call that completes is granted
   exactly when the nickname was not in the set apelidos before the step, it
   is denied with the duplicate-nickname response otherwise, and the nickname
   is in the set after the step; and of the creates of one nickname whose
   reservation call has completed, exactly one was granted. *)
C13_ReserveAtomic ==
    /\ [][\A r \in Reqs :
              (IsCreate(r) /\ req[r].pc = "sadd" /\ req'[r] # req[r]
                   /\ req'[r].fault = "none")
                  => /\ (req'[r].pc = "set") <=> (Nick(r) \notin apelidos)
                     /\ (req'[r].pc # "set")
                            => (req'[r].resp = "UnprocessableEntity" /\ req'[r].body = <<>>)
                     /\ Nick(r) \in apelidos']_vars
    /\ [](\A n \in Nicks :
              LET granted == { r \in CreatesOf(n) : Granted(r) }
                  denied == { r \in CreatesOf(n) : Duplicate(r) }
              IN (granted \cup denied # {}) => Cardinality(granted) = 1)

(* of two creates of one nickname one holds the reservation and has not
   ended, the other has been denied *)
C13_Witness ==
    \E r, q \in Reqs :
        /\ r # q /\ ValidCreate(r) /\ ValidCreate(q) /\ Nick(r) = Nick(q)
        /\ req[r].pc = "set" /\ Duplicate(q)

(* ---------------- C14 ---------------- *)

(* C14: a get-by-id that ends with Ok or NotFound answers Ok exactly when the
   table pessoas has a row of its identifier at that moment. *)
C14_GetAgreesWithStore ==
    [][\A g \in Reqs :
           (IsGet(g) /\ req[g].pc \in {"get", "select"} /\ req'[g].pc = "done"
                /\ req'[g].resp \in {"Ok", "NotFound"})
               => (req'[g].resp = "Ok" <=> select_by_id(pessoas, req[g].id) # {})]_vars

(* ---------------- C15 ---------------- *)

(* C15: in every step the set apelidos only grows, and it changes only in the
   reservation step of a create, by that create's nickname; the table pessoas
   keeps its rows and changes only in the insert step of a create, by one new
   row of that create's identifier and nickname; every cache entry stays as it
   is; and a step of a get-by-id, a search or a count changes none of the
   three. *)
C15_AppendOnly ==
    [][/\ apelidos \subseteq apelidos'
       /\ (apelidos' # apelidos)
              => \E r \in Reqs :
                     /\ IsCreate(r) /\ req[r].pc = "sadd" /\ req'[r] # req[r]
                     /\ apelidos' = apelidos \cup {Nick(r)}
       /\ Len(pessoas') >= Len(pessoas)
       /\ SubSeq(pessoas', 1, Len(pessoas)) = pessoas
       /\ (pessoas' # pessoas)
              => \E r \in Reqs :
                     /\ IsCreate(r) /\ req[r].pc = "insert" /\ req'[r] # req[r]
                     /\ Len(pessoas') = Len(pessoas) + 1
                     /\ pessoas'[Len(pessoas')].id = req[r].id
                     /\ pessoas'[Len(pessoas')].apelido = req[r].input.apelido
                     /\ select_by_id(pessoas, req[r].id) = {}
       /\ \A k \in DOMAIN cache : k \in DOMAIN cache' /\ cache'[k] = cache[k]
       /\ \A r \in Reqs :
              (req'[r] # req[r] /\ req'[r].kind \in {"get", "search", "count"})
                  => UNCHANGED <<apelidos, cache, pessoas>>]_vars

(* a create has reserved its nickname, written its cache entry and stored
   its record, and a get-by-id has then been answered from the table *)
C15_Witness ==
    /\ Cardinality(apelidos) = 1 /\ Len(pessoas) = 1 /\ DOMAIN cache = {1}
    /\ \E g \in Reqs : IsGet(g) /\ req[g].fault = "get" /\ req[g].resp = "Ok"

(* ---------------- C16 ---------------- *)

(* C16: for every identifier that has a cache entry and a row, the cached
   serialization carries the identifier, nickname, name, birth date and stack
   of the row, and it is the serialization get-by-id builds from the row. *)
C16_CacheAgreesWithStore ==
    \A id \in DOMAIN cache :
        \A i \in select_by_id(pessoas, id) :
            /\ JsonField(cache[id], "id") = Some(pessoas[i].id)
            /\ JsonField(cache[id], "apelido") = pessoas[i].apelido
            /\ JsonField(cache[id], "nome") = pessoas[i].nome
            /\ JsonField(cache[id], "nascimento") = pessoas[i].nascimento
            /\ JsonField(cache[id], "stack") = pessoas[i].stack
            /\ cache[id] = to_string(from_row(pessoas[i]))

(* a person with an upper-case nickname and a payload identifier of its own
   is in the cache and in the table *)
C16_Witness ==
    \E id \in DOMAIN cache :
        \E i \in select_by_id(pessoas, id) :
            pessoas[i].apelido = Some(<<"A">>) /\ id # 1

(* ---------------- C17 ---------------- *)

(* C17: the nickname of every row of the table pessoas is a member of the set
   apelidos, and the table has no more rows than the set has members. *)
C17_StoredNicknamesReserved ==
    /\ \A i \in 1..Len(pessoas) :
           IsSome(pessoas[i].apelido) /\ unwrap(pessoas[i].apelido) \in apelidos
    /\ Len(pessoas) <= Cardinality(apelidos)

(* two nicknames are stored and reserved *)
C17_Witness ==
    Len(pessoas) = 2 /\ Cardinality(apelidos) = 2

(* ---------------- C18 ---------------- *)

(* C18 as stated: every row of the table has a cache entry of its identifier,
   and a get-by-id goes on to the query of the table only for an identifier
   that has no row and that no create has answered Created with. *)
C18_FallbackOnlyForUnknown ==
    /\ [](\A i \in 1..Len(pessoas) : pessoas[i].id \in DOMAIN cache)
    /\ [][\A g \in Reqs :
              (IsGet(g) /\ req[g].pc = "get" /\ req'[g].pc = "select")
                  => /\ select_by_id(pessoas, req[g].id) = {}
                     /\ ~WasCreated(req[g].id)]_vars

(* C18, amended: every row of the table has a cache entry of its identifier
   (from before its insert), and a get-by-id whose GET command does not fail
   goes on to the query of the table only for an identifier that has no row
   and that no create has answered Created with. *)
C18_FallbackOnlyForUnknownOrGetError ==
    /\ [](\A i \in 1..Len(pessoas) : pessoas[i].id \in DOMAIN cache)
    /\ [][\A r \in Reqs :
              (IsCreate(r) /\ req[r].pc = "insert" /\ pessoas' # pessoas)
                  => req[r].id \in DOMAIN cache]_vars
    /\ [][\A g \in Reqs :
              (IsGet(g) /\ req[g].pc = "get" /\ req'[g].pc = "select"
                   /\ req'[g].fault = "none")
                  => /\ select_by_id(pessoas, req[g].id) = {}
                     /\ ~WasCreated(req[g].id)]_vars

(* a get-by-id without a failed call has answered NotFound from the table
   while the table holds a record *)
C18_Witness ==
    \E g \in Reqs :
        IsGet(g) /\ NoFault(g) /\ req[g].resp = "NotFound" /\ Len(pessoas) = 1

====
